---- MODULE Spec2Model ----
(***************************************************************************)
(* State-machine model of the voice pack manager (src/voice_manager.py):   *)
(* the in-memory store (audio_data, plist_path, modified), the persisted   *)
(* plist files, and the conversion queue driven by on_files_dropped,       *)
(* convert_next and the ConvertThread callbacks.                           *)
(*                                                                         *)
(* Control model.  All handlers run on the GUI thread.  A handler that     *)
(* opens a modal dialog (QInputDialog.getText, QMessageBox.question) runs  *)
(* a nested event loop: user input to the main window is blocked, but the  *)
(* queued signals of running ConvertThreads are still delivered.  The two  *)
(* prompts of convert_next carry local state (the popped file, the name)   *)
(* across the dialog, so they are kept as frames on `stack`; only the top  *)
(* frame can be answered.  Surface events (drop, open, rename, delete,     *)
(* save, close) need an empty stack.  Dialogs that open a handler or end   *)
(* it (file pickers, the rename / delete / close questions, the message    *)
(* boxes) carry nothing a nested callback can invalidate, so each of those *)
(* handlers is one action taken when its dialog returns.                   *)
(***************************************************************************)
EXTENDS Integers, Sequences, FiniteSets, TLC

\* ------------------------------------------------------------------ bounds
MaxJobs == 2      \* source files submitted to the queue over one run
MaxBatch == 2     \* files in one dropped / picked list

\* ------------------------------------------------------------------- files
File(stem, suffix) == [stem |-> stem, suffix |-> suffix]

\* Python None / "" for plist_path (both are falsy in `not self.plist_path`).
NoPath == File("", "")

MediaA == File("a", ".MP3")
TextN == File("n", ".txt")
Plist1 == File("p1", ".plist")

PlistFiles == {Plist1}
DropFiles == {MediaA, TextN, Plist1}

SUPPORTED_FORMATS ==
    {".mp3", ".wav", ".m4a", ".aac", ".ogg", ".flac",
     ".mp4", ".mov", ".avi", ".mkv", ".webm"}

\* str.lower() on the suffixes that occur
Lower(s) == CASE s = ".MP3" -> ".mp3" [] OTHER -> s

\* f.endswith('.plist'): case sensitive
EndsWithPlist(f) == f.suffix = ".plist"

\* Path(f).suffix.lower() in SUPPORTED_FORMATS
IsSupported(f) == Lower(f.suffix) \in SUPPORTED_FORMATS

\* ------------------------------------------------------- names and strip()
\* Text typed into a dialog: a sequence of characters.
NameX == <<"x">>
NameY == <<"y">>
Texts == {<<>>, <<" ">>, NameX, <<" ", "x">>, NameY}
RenameTexts == {<<>>, NameX, NameY}

IsSpace(c) == c = " "

RECURSIVE LStrip(_)
LStrip(s) == IF s # <<>> /\ IsSpace(Head(s)) THEN LStrip(Tail(s)) ELSE s

RECURSIVE RStrip(_)
RStrip(s) ==
    IF s # <<>> /\ IsSpace(s[Len(s)]) THEN RStrip(SubSeq(s, 1, Len(s) - 1)) ELSE s

\* str.strip()
Strip(s) == RStrip(LStrip(s))

\* ------------------------------------------------------ payloads and base64
\* Byte strings: what an encode can produce, and what the plist on disk holds.
PayloadSilk == <<2, 35, 33>>
PayloadOther == <<255>>
Payloads == {<<>>, PayloadSilk}

Pad == 64   \* the '=' of base64, next to the sextets 0..63

RECURSIVE B64Encode(_)
B64Encode(b) ==
    IF b = <<>> THEN <<>>
    ELSE IF Len(b) = 1 THEN
        <<b[1] \div 4, (b[1] % 4) * 16, Pad, Pad>>
    ELSE IF Len(b) = 2 THEN
        <<b[1] \div 4, (b[1] % 4) * 16 + b[2] \div 16, (b[2] % 16) * 4, Pad>>
    ELSE
        <<b[1] \div 4, (b[1] % 4) * 16 + b[2] \div 16,
          (b[2] % 16) * 4 + b[3] \div 64, b[3] % 64>>
        \o B64Encode(SubSeq(b, 4, Len(b)))

\* A decoder that stops after the first group of four characters.
B64DecodeOneGroup(s) ==
    IF Len(s) < 4 THEN <<>>
    ELSE LET b1 == s[1] * 4 + s[2] \div 16
             b2 == (s[2] % 16) * 16 + s[3] \div 4
             b3 == (s[3] % 4) * 64 + s[4]
         IN  IF s[3] = Pad THEN <<b1>>
             ELSE IF s[4] = Pad THEN <<b1, b2>>
             ELSE <<b1, b2, b3>>

RECURSIVE B64Decode(_)
B64Decode(s) ==
    IF Len(s) < 4 THEN <<>>
    ELSE LET b1 == s[1] * 4 + s[2] \div 16
             b2 == (s[2] % 16) * 16 + s[3] \div 4
             b3 == (s[3] % 4) * 64 + s[4]
         IN  IF s[3] = Pad THEN <<b1>>
             ELSE IF s[4] = Pad THEN <<b1, b2>>
             ELSE <<b1, b2, b3>> \o B64Decode(SubSeq(s, 5, Len(s)))

\* ------------------------------------------------------------- dict helpers
EmptyMap == [n \in {} |-> <<>>]

\* d[k] = v
Put(d, k, v) == [n \in DOMAIN d \cup {k} |-> IF n = k THEN v ELSE d[n]]

\* A removal that stops after one of the keys.
WithoutOne(d, ks) ==
    IF ks = {} THEN d
    ELSE LET k == CHOOSE n \in ks : TRUE
         IN  [n \in DOMAIN d \ {k} |-> d[n]]

\* the dict without the keys ks
Without(d, ks) == [n \in DOMAIN d \ ks |-> d[n]]

\* ------------------------------------------------------------------ plistlib
\* Unicode code points of the characters that occur in names.
CodePoint(c) ==
    CASE c = " " -> 32 [] c = "&" -> 38 [] c = ";" -> 59 [] c = "<" -> 60
      [] c = ">" -> 62 [] c = "a" -> 97 [] c = "g" -> 103 [] c = "l" -> 108
      [] c = "m" -> 109 [] c = "p" -> 112 [] c = "t" -> 116 [] c = "x" -> 120
      [] c = "y" -> 121

\* s < t for Python strings
RECURSIVE Before(_, _)
Before(s, t) ==
    IF t = <<>> THEN FALSE
    ELSE IF s = <<>> THEN TRUE
    ELSE IF Head(s) # Head(t) THEN CodePoint(Head(s)) < CodePoint(Head(t))
    ELSE Before(Tail(s), Tail(t))

\* sorted(keys): plistlib.dump writes a dict with sort_keys=True
RECURSIVE SortedKeys(_)
SortedKeys(ks) ==
    IF ks = {} THEN <<>>
    ELSE LET first == CHOOSE k \in ks : \A o \in ks \ {k} : Before(k, o)
         IN  <<first>> \o SortedKeys(ks \ {first})

\* The XML writer escapes the markup characters of a key.  (The values are
\* base64 text, which holds none of them.)
RECURSIVE Escape(_)
Escape(s) ==
    IF s = <<>> THEN <<>>
    ELSE (CASE Head(s) = "&" -> <<"&", "a", "m", "p", ";">>
            [] Head(s) = "<" -> <<"&", "l", "t", ";">>
            [] Head(s) = ">" -> <<"&", "g", "t", ";">>
            [] OTHER -> <<Head(s)>>) \o Escape(Tail(s))

\* A prefix test that does not look at the first element.
StartsWithAfterFirst(s, p) ==
    Len(s) >= Len(p) /\ SubSeq(s, 2, Len(p)) = SubSeq(p, 2, Len(p))

\* s[1..n] = p
StartsWith(s, p) == Len(s) >= Len(p) /\ SubSeq(s, 1, Len(p)) = p

\* A parser that leaves the entity references of a key as they are.
UnescapeNothing(s) == s

\* The XML parser resolves the entity references of a key.
RECURSIVE Unescape(_)
Unescape(s) ==
    IF s = <<>> THEN <<>>
    ELSE IF StartsWith(s, <<"&", "a", "m", "p", ";">>)
         THEN <<"&">> \o Unescape(SubSeq(s, 6, Len(s)))
    ELSE IF StartsWith(s, <<"&", "l", "t", ";">>)
         THEN <<"<">> \o Unescape(SubSeq(s, 5, Len(s)))
    ELSE IF StartsWith(s, <<"&", "g", "t", ";">>)
         THEN <<">">> \o Unescape(SubSeq(s, 5, Len(s)))
    ELSE <<Head(s)>> \o Unescape(Tail(s))

\* plistlib.dump(d, f): the <key>/<string> pairs of the document, in order
Dump(d) ==
    LET ks == SortedKeys(DOMAIN d)
    IN  [i \in 1..Len(ks) |-> [key |-> Escape(ks[i]), string |-> d[ks[i]]]]

\* plistlib.load(f): a key that occurs again replaces the earlier value
Load(doc) ==
    LET key(i) == Unescape(doc[i].key)
    IN  [k \in {key(i) : i \in 1..Len(doc)} |->
            doc[CHOOSE i \in 1..Len(doc) :
                   key(i) = k /\ \A j \in (i + 1)..Len(doc) : key(j) # k].string]

\* -------------------------------------------------------------- QProgressBar
\* QProgressBar::setValue: a value outside [minimum, maximum] is ignored
\* (minimum stays 0).
SetValue(pb, v) ==
    IF v = pb.value \/ ((v > pb.maximum \/ v < 0) /\ pb.maximum # 0)
    THEN pb
    ELSE [pb EXCEPT !.value = v]

\* QProgressBar::setMaximum: setRange(0, m); a value left outside is reset.
SetMaximum(pb, m) ==
    LET mx == IF m < 0 THEN 0 ELSE m
    IN  IF mx = pb.maximum THEN pb
        ELSE [pb EXCEPT !.maximum = mx,
                        !.value = IF pb.value < -1 \/ pb.value > mx
                                  THEN -1 ELSE pb.value]

SetVisible(pb, b) == [pb EXCEPT !.visible = b]

\* ------------------------------------------------------------------- state
VARIABLES
    audio_data,     \* self.audio_data: name -> base64 text
    plist_path,     \* self.plist_path (NoPath for None)
    modified,       \* self.modified
    audio_list,     \* names shown in self.audio_list (set by update_ui)
    progress_bar,   \* self.progress_bar: visible, maximum, value
    convert_queue,  \* self.convert_queue: files still to name, with job ids
    threads,        \* the ConvertThreads that are running
    stack,          \* convert_next calls waiting in a modal prompt
    disk,           \* the plist files of the file system
    closed,         \* the window was closed or the process aborted
    jobs,           \* history: one record per submitted source file
    batch,          \* history: the latest submission
    reply,          \* history: the answer to the close question
    tmpfs,          \* the files of the temporary directory made by this run
    temp_files,     \* self.temp_files: paths of playback files
    player,         \* self.player: its source and whether it plays
    current_playing,\* self.current_playing (<<>> for None)
    outputs,        \* the files written by the exports
    probe           \* history: the last call made to a function on its own

\* What playback, export and the direct calls own.
playback == <<temp_files, player, current_playing>>
side == <<playback, outputs, probe>>

vars == <<audio_data, plist_path, modified, audio_list, progress_bar,
          convert_queue, threads, stack, disk, closed, jobs, batch, reply,
          tmpfs, side>>

Terminal == {"Skipped", "Succeeded", "Failed"}

\* ----------------------------------------------------------- temporary files
\* A file of the temporary directory: tempfile gives it a stem no file has.
Temp(stem, suffix) == [stem |-> stem, suffix |-> suffix]
NoTemp == Temp(0, "")

\* pcm_path.replace('.pcm', '.silk') and the like: the same stem
Sibling(f, suffix) == Temp(f.stem, suffix)

\* tempfile.NamedTemporaryFile(suffix=..., delete=False): a fresh name
NamedTemporaryFile(fs, suffix) ==
    Temp(CHOOSE n \in 1..(Cardinality(fs) + 1) :
            /\ \A f \in fs : f.stem # n
            /\ \A k \in 1..(n - 1) : \E f \in fs : f.stem = k,
         suffix)

NoCall == [op |-> "none"]

NoFile == [kind |-> "none", data |-> <<>>]
Garbage == [kind |-> "garbage", data |-> <<>>]
PlistOf(d) == [kind |-> "plist", data |-> Dump(d)]

Init ==
    /\ audio_data = EmptyMap
    /\ plist_path = NoPath
    /\ modified = FALSE
    /\ audio_list = {}
    /\ progress_bar = [visible |-> FALSE, maximum |-> 100, value |-> -1]
    /\ convert_queue = <<>>
    /\ threads = {}
    /\ stack = <<>>
    /\ disk = [p \in PlistFiles |->
                 PlistOf(Put(EmptyMap, NameX, B64Encode(PayloadOther)))]
    /\ closed = FALSE
    /\ jobs = <<>>
    /\ batch = [id |-> 0, size |-> 0, emptied |-> FALSE, fresh |-> FALSE,
                untouched |-> TRUE]
    /\ reply = "None"
    /\ tmpfs = {}
    /\ temp_files = <<>>
    /\ player = [source |-> NoTemp, playing |-> FALSE]
    /\ current_playing = <<>>
    /\ outputs = {}
    /\ probe = NoCall

\* The main event loop is idle: no modal prompt is open.
Idle == stack = <<>> /\ ~closed

Top == stack[Len(stack)]
Pop(st) == SubSeq(st, 1, Len(st) - 1)

SetStatus(js, j, s) == [js EXCEPT ![j].status = s]

\* What convert_next shows when the queue is exhausted: the status bar
\* text "adding finished" (the progress bar is hidden as well), and what it
\* shows otherwise.
BatchComplete == [message |-> "adding finished"]
NoMessage == [message |-> ""]

\* ----------------------------------------------------------- convert_next
\* convert_next up to its first prompt: on an empty queue hide the progress
\* bar; otherwise pop the first file and open the name prompt for it.
ConvertNext(q, pb, st, js) ==
    IF q = <<>>
    THEN [queue |-> q, pb |-> SetVisible(pb, FALSE), stack |-> st, jobs |-> js,
          shown |-> BatchComplete]
    ELSE [queue |-> Tail(q), pb |-> pb,
          stack |-> Append(st, [kind |-> "name", job |-> Head(q).job,
                                file |-> Head(q).file, name |-> <<>>]),
          jobs |-> SetStatus(js, Head(q).job, "AwaitingName"),
          shown |-> NoMessage]

\* The skip branches of convert_next: count the job and go on.
SkipJob(j) ==
    LET pb == SetValue(progress_bar, progress_bar.value + 1)
        nx == ConvertNext(convert_queue, pb, Pop(stack),
                          SetStatus(jobs, j, "Skipped"))
    IN  /\ convert_queue' = nx.queue
        /\ progress_bar' = nx.pb
        /\ stack' = nx.stack
        /\ jobs' = nx.jobs
        /\ UNCHANGED threads

\* ConvertThread(file_path, name).start(); `ow` remembers a confirmed
\* overwrite.
StartThread(f, name, ow) ==
    /\ threads' = threads \cup {[job |-> f.job, file |-> f.file,
                                 name |-> name, ow |-> ow]}
    /\ stack' = Pop(stack)
    /\ jobs' = [jobs EXCEPT ![f.job].status = "InProgress",
                            ![f.job].name = name]
    /\ UNCHANGED <<progress_bar, convert_queue>>

\* convert_next without its existence check: every name counts as new.
NameExistsUnchecked(name) == FALSE

\* `name in self.audio_data` after the name prompt
NameExists(name) == name \in DOMAIN audio_data

\* `not ok or not name.strip()`
NameDeclined(ok, text) == ~ok \/ Strip(text) = <<>>

\* The name prompt returns (ok, text).
NameAnswered(ok, text) ==
    /\ ~closed
    /\ stack # <<>>
    /\ Top.kind = "name"
    /\ IF NameDeclined(ok, text)
       THEN SkipJob(Top.job)
       ELSE IF NameExists(Strip(text))
       THEN /\ stack' = [stack EXCEPT ![Len(stack)] =
                           [Top EXCEPT !.kind = "overwrite",
                                       !.name = Strip(text)]]
            /\ jobs' = [jobs EXCEPT
                          ![Top.job].status = "AwaitingOverwriteConfirmation",
                          ![Top.job].name = Strip(text)]
            /\ UNCHANGED <<progress_bar, convert_queue, threads>>
       ELSE StartThread(Top, Strip(text), FALSE)
    /\ UNCHANGED <<audio_data, plist_path, modified, audio_list, disk, closed,
                   batch, reply, tmpfs, side>>

\* The overwrite question returns Yes or No.
OverwriteAnswered(yes) ==
    /\ ~closed
    /\ stack # <<>>
    /\ Top.kind = "overwrite"
    /\ IF yes
       THEN StartThread(Top, Top.name, TRUE)
       ELSE SkipJob(Top.job)
    /\ UNCHANGED <<audio_data, plist_path, modified, audio_list, disk, closed,
                   batch, reply, tmpfs, side>>

\* update_ui: the list shows the keys of the mapping
UpdateUi(d) == DOMAIN d

\* ------------------------------------------------------------ load_plist
\* plistlib.load succeeds on a well-formed plist file only.
Loadable(f) == disk[f].kind = "plist"

\* The mapping held by the plist file at path f.
Persisted(f) == Load(disk[f].data)

\* A well-formed plist whose root is an empty array, not a dict.
ArrayPlist == [kind |-> "array", data |-> <<>>]

\* plistlib.load(f) succeeds and returns a list.
LoadsAsList(f) == disk[f].kind = "array"

\* load_plist(f): plistlib.load raises before anything is assigned; the
\* error is shown and nothing else happens.
LoadPlist(f) ==
    /\ IF Loadable(f)
       THEN /\ audio_data' = Persisted(f)
            /\ plist_path' = f
            /\ modified' = FALSE
            /\ audio_list' = UpdateUi(Persisted(f))
            /\ batch' = [batch EXCEPT !.untouched = FALSE]
       ELSE IF LoadsAsList(f)
       THEN \* plistlib.load returns [], the three assignments are made, and
            \* update_ui raises at self.audio_data.keys() after clearing the
            \* list widget; the except clause reports the failure.
            /\ audio_data' = <<>>
            /\ plist_path' = f
            /\ modified' = FALSE
            /\ audio_list' = {}
            /\ batch' = [batch EXCEPT !.untouched = FALSE]
       ELSE UNCHANGED <<audio_data, plist_path, modified, audio_list, batch>>
    /\ UNCHANGED <<progress_bar, convert_queue, threads, stack, disk, closed,
                   jobs, reply>>

\* open_plist: the file picker returns a path.
OpenPlist(f) ==
    /\ Idle
    /\ LoadPlist(f)
    /\ UNCHANGED <<tmpfs, side>>

\* The jobs whose encode is running when the container is replaced.
Replaced == [op |-> "replaced", jobs |-> {t.job : t \in threads}]

\* open_plist, with the replacement of the container kept as history
OpenPlistNoted(f) ==
    /\ Idle
    /\ LoadPlist(f)
    /\ probe' = IF Loadable(f) THEN Replaced ELSE probe
    /\ UNCHANGED <<tmpfs, playback, outputs>>

\* ------------------------------------------------------ on_files_dropped
FirstPlist(files) ==
    files[CHOOSE i \in 1..Len(files) :
            /\ EndsWithPlist(files[i])
            /\ \A k \in 1..(i - 1) : ~EndsWithPlist(files[k])]

\* valid_files as queue entries, numbered after the jobs submitted so far
QueueOf(valid) ==
    [i \in 1..Len(valid) |-> [file |-> valid[i], job |-> Len(jobs) + i]]

NewJobs(valid) ==
    [i \in 1..Len(valid) |->
        [batch |-> batch.id + 1, status |-> "Pending", name |-> <<>>,
         data |-> <<>>]]

\* `if not self.plist_path:` a new, empty container replaces the mapping
NewContainer == plist_path = NoPath

\* on_files_dropped(files), also reached from add_audio_files and dropEvent;
\* at most `cap` files are submitted over a run.
Dropped(files, cap) ==
    /\ Idle
    /\ UNCHANGED <<tmpfs, playback, outputs>>
    /\ IF \E i \in 1..Len(files) : EndsWithPlist(files[i])
       THEN LoadPlist(FirstPlist(files))
       ELSE LET valid == SelectSeq(files, IsSupported)
                data == IF NewContainer THEN EmptyMap ELSE audio_data
                pb == SetValue(SetMaximum(SetVisible(progress_bar, TRUE),
                                          Len(valid)), 0)
                nx == ConvertNext(QueueOf(valid), pb, stack,
                                  jobs \o NewJobs(valid))
            IN  IF valid = <<>>
                THEN UNCHANGED <<audio_data, plist_path, modified, audio_list,
                                 progress_bar, convert_queue, threads, stack,
                                 disk, closed, jobs, batch, reply>>
                ELSE /\ Len(jobs) + Len(valid) <= cap
                     /\ audio_data' = data
                     /\ modified' = (NewContainer \/ modified)
                     /\ convert_queue' = nx.queue
                     /\ progress_bar' = nx.pb
                     /\ stack' = nx.stack
                     /\ jobs' = nx.jobs
                     /\ batch' = [id |-> batch.id + 1, size |-> Len(valid),
                                  emptied |-> data # audio_data,
                                  fresh |-> data = EmptyMap,
                                  untouched |-> TRUE]
                     /\ UNCHANGED <<plist_path, audio_list, threads, disk,
                                    closed, reply>>

\* on_files_dropped(files)
FilesDropped(files, cap) ==
    /\ Dropped(files, cap)
    /\ UNCHANGED probe

\* on_files_dropped(files), with a replacement or reset of the container
\* kept as history
FilesDroppedNoted(files, cap) ==
    /\ Dropped(files, cap)
    /\ probe' =
          IF \E i \in 1..Len(files) : EndsWithPlist(files[i])
          THEN IF Loadable(FirstPlist(files)) THEN Replaced ELSE probe
          ELSE IF SelectSeq(files, IsSupported) # <<>> /\ NewContainer
               THEN Replaced
               ELSE probe


\* ----------------------------------------------------------- ConvertThread
None == [ok |-> FALSE, data |-> <<>>]
Bytes(b) == [ok |-> TRUE, data |-> b]

\* How a call of audio_to_silk goes: where it fails, or the bytes that
\* pilk.encode writes.  "tool": ffmpeg is not found, before any file is made;
\* "demux": ffmpeg exits nonzero; "encode": pilk.encode raises, having
\* written nothing; "encode_late": it raises after it made the silk file.
EncodeFaults == {"tool", "demux", "encode", "encode_late"}
EncodeRuns ==
    {[fault |-> x, data |-> <<>>] : x \in EncodeFaults}
       \cup {[fault |-> "ok", data |-> b] : b \in Payloads}

\* audio_to_silk(input_path) on the temporary directory fs: what it returns
\* and the directory it leaves.  Only the last lines of the try block unlink
\* the two files.
AudioToSilk(fs, run) ==
    LET pcm_path == NamedTemporaryFile(fs, ".pcm")
        silk_path == Sibling(pcm_path, ".silk")
    IN  CASE run.fault = "tool" -> [ret |-> None, fs |-> fs]
          [] run.fault \in {"demux", "encode"} ->
                [ret |-> None, fs |-> fs \cup {pcm_path}]
          [] run.fault = "encode_late" ->
                [ret |-> None, fs |-> fs \cup {pcm_path, silk_path}]
          [] OTHER -> [ret |-> Bytes(run.data), fs |-> fs]

\* What audio_to_silk can return: None, or the bytes read from the silk file.
EncodeResults == {AudioToSilk({}, run).ret : run \in EncodeRuns}

\* A thread that takes every bytes object, the empty one too, as a result.
RunEmitsAnyBytes(r) == IF r.ok THEN "finished" ELSE "error"

\* ConvertThread.run: `if silk_data:` is false for None and for b''.
RunEmits(r) == IF r.ok /\ r.data # <<>> THEN "finished" ELSE "error"

\* self.audio_data[name] = base64.b64encode(silk_data).decode('utf-8')
Store(d, name, silk_data) == Put(d, name, B64Encode(silk_data))

\* on_convert_finished(name, silk_data); js is the history of the jobs after
\* it.
ConvertFinished(name, silk_data, js) ==
    LET data == Store(audio_data, name, silk_data)
        pb == SetValue(progress_bar, progress_bar.value + 1)
        nx == ConvertNext(convert_queue, pb, stack, js)
    IN  /\ audio_data' = data
        /\ modified' = TRUE
        /\ audio_list' = UpdateUi(data)
        /\ convert_queue' = nx.queue
        /\ progress_bar' = nx.pb
        /\ stack' = nx.stack
        /\ jobs' = nx.jobs

\* on_convert_finished delivered for the thread t
OnConvertFinished(t, silk_data) ==
    ConvertFinished(t.name, silk_data,
                    [jobs EXCEPT ![t.job].status = "Succeeded",
                                 ![t.job].data = silk_data])

\* on_convert_error(name, error): the warning names the job, then the job
\* is counted and the queue goes on.
OnConvertError(t) ==
    LET pb == SetValue(progress_bar, progress_bar.value + 1)
        nx == ConvertNext(convert_queue, pb, stack,
                          SetStatus(jobs, t.job, "Failed"))
    IN  /\ convert_queue' = nx.queue
        /\ progress_bar' = nx.pb
        /\ stack' = nx.stack
        /\ jobs' = nx.jobs
        /\ UNCHANGED <<audio_data, modified, audio_list>>

\* The audio_to_silk call of a running ConvertThread goes as `run`; the
\* signal of the thread is delivered to the GUI thread, also inside a modal
\* prompt.
ThreadDone(t, run) ==
    LET call == AudioToSilk(tmpfs, run)
    IN  /\ ~closed
        /\ t \in threads
        /\ threads' = threads \ {t}
        /\ tmpfs' = call.fs
        /\ IF RunEmits(call.ret) = "finished"
           THEN OnConvertFinished(t, call.ret.data)
           ELSE OnConvertError(t)
        /\ UNCHANGED <<plist_path, disk, closed, batch, reply, side>>

\* ------------------------------------------------------------ save_plist
SaveOutcomes == {"ok", "denied", "write_failed"}

\* What the try block of save_plist leaves at `path`.  "denied": os.chmod or
\* open raises PermissionError and the file is untouched.  "write_failed":
\* open has truncated the file and plistlib.dump raises.
Written(path, outcome) ==
    CASE outcome = "ok" -> [disk EXCEPT ![path] = PlistOf(audio_data)]
      [] outcome = "write_failed" -> [disk EXCEPT ![path] = Garbage]
      [] OTHER -> disk

\* save_plist with a path: both exceptions are caught and shown; the flag
\* is cleared and the list refreshed after the dump only.
SaveTo(path, outcome) ==
    /\ disk' = Written(path, outcome)
    /\ modified' = IF outcome = "ok" THEN FALSE ELSE modified
    /\ audio_list' = IF outcome = "ok" THEN UpdateUi(audio_data) ELSE audio_list

\* save_plist_as: the picker returns `choice` (NoPath when cancelled); the
\* path is assigned before save_plist runs.
SavePlistAsBody(choice, outcome) ==
    IF choice = NoPath
    THEN UNCHANGED <<plist_path, disk, modified, audio_list>>
    ELSE /\ plist_path' = choice
         /\ SaveTo(choice, outcome)

\* save_plist
SavePlistBody(choice, outcome) ==
    IF plist_path = NoPath
    THEN SavePlistAsBody(choice, outcome)
    ELSE /\ plist_path' = plist_path
         /\ SaveTo(plist_path, outcome)

SavePlist(choice, outcome) ==
    /\ Idle
    /\ SavePlistBody(choice, outcome)
    /\ UNCHANGED <<audio_data, progress_bar, convert_queue, threads, stack,
                   closed, jobs, batch, reply, tmpfs, side>>

SavePlistAs(choice, outcome) ==
    /\ Idle
    /\ SavePlistAsBody(choice, outcome)
    /\ UNCHANGED <<audio_data, progress_bar, convert_queue, threads, stack,
                   closed, jobs, batch, reply, tmpfs, side>>

\* ------------------------------------------------------------- closeEvent
Replies == {"Save", "Discard", "Cancel"}

\* `for f in self.temp_files: os.unlink(f)`, errors ignored
Unlinked(fs, paths) == fs \ {paths[i] : i \in 1..Len(paths)}

\* closeEvent: the question is asked on a modified container only; after
\* Save the close is accepted whatever save_plist did; an accepted close
\* removes the files listed in temp_files.
CloseEvent(answer, choice, outcome) ==
    /\ Idle
    /\ IF modified /\ answer = "Cancel"
       THEN UNCHANGED <<plist_path, disk, modified, audio_list, closed, reply,
                        tmpfs>>
       ELSE IF modified /\ answer = "Save"
       THEN /\ SavePlistBody(choice, outcome)
            /\ closed' = TRUE
            /\ reply' = answer
            /\ tmpfs' = Unlinked(tmpfs, temp_files)
       ELSE /\ closed' = TRUE
            /\ reply' = IF modified THEN answer ELSE reply
            /\ tmpfs' = Unlinked(tmpfs, temp_files)
            /\ UNCHANGED <<plist_path, disk, modified, audio_list>>
    /\ UNCHANGED <<audio_data, progress_bar, convert_queue, threads, stack,
                   jobs, batch, side>>

\* An exception that leaves a slot is caught nowhere: PyQt ends the process.
Abort ==
    /\ closed' = TRUE
    /\ reply' = "Abort"

\* ---------------------------------------------------------- rename_selected
\* `if ok and new_name and new_name != old_name:`
RenameWanted(old, ok, new_name) == ok /\ new_name # <<>> /\ new_name # old

\* A rename that inserts the new name and forgets to remove the old one.
RenamedKeepsOld(d, old, new_name) == Put(d, new_name, d[old])

\* A rename that never sees a conflict.
RenameConflictNever(new_name) == FALSE

\* self.audio_data[new_name] = self.audio_data.pop(old_name)
Renamed(d, old, new_name) == Put(Without(d, {old}), new_name, d[old])

\* `if new_name in self.audio_data:` the warning, and nothing else
RenameConflict(new_name) == new_name \in DOMAIN audio_data

\* `old` is the current item of the list; the input dialog returns
\* (ok, new_name).
Rename(old, ok, new_name) ==
    /\ Idle
    /\ old \in audio_list
    /\ IF RenameWanted(old, ok, new_name) /\ ~RenameConflict(new_name)
       THEN IF old \notin DOMAIN audio_data
            THEN /\ Abort
                 /\ UNCHANGED <<audio_data, modified, audio_list, batch>>
            ELSE /\ audio_data' = Renamed(audio_data, old, new_name)
                 /\ modified' = TRUE
                 /\ audio_list' = UpdateUi(audio_data')
                 /\ batch' = [batch EXCEPT !.untouched = FALSE]
                 /\ UNCHANGED <<closed, reply>>
       ELSE UNCHANGED <<audio_data, modified, audio_list, closed, batch, reply>>
    /\ UNCHANGED <<plist_path, progress_bar, convert_queue, threads, stack,
                   disk, jobs, tmpfs, playback, outputs>>

\* rename_selected
RenameSelected(old, ok, new_name) ==
    /\ Rename(old, ok, new_name)
    /\ UNCHANGED probe

\* rename_selected, with what the dialog returned kept as history
RenameAsked(old, ok, new_name) ==
    /\ Rename(old, ok, new_name)
    /\ probe' = [op |-> "rename", old |-> old, ok |-> ok, new |-> new_name]

\* ---------------------------------------------------------- delete_selected
\* `names` are the selected items; the question returns Yes or No.  A
\* KeyError inside the loop leaves the entries deleted before it removed.
DeleteSelected(names, yes) ==
    /\ Idle
    /\ names # {}
    /\ names \subseteq audio_list
    /\ IF ~yes
       THEN UNCHANGED <<audio_data, modified, audio_list, closed, batch, reply>>
       ELSE IF names \subseteq DOMAIN audio_data
       THEN /\ audio_data' = Without(audio_data, names)
            /\ modified' = TRUE
            /\ audio_list' = UpdateUi(audio_data')
            /\ batch' = [batch EXCEPT !.untouched = FALSE]
            /\ UNCHANGED <<closed, reply>>
       ELSE /\ \E done \in SUBSET (names \cap DOMAIN audio_data) :
                 audio_data' = Without(audio_data, done)
            /\ Abort
            /\ UNCHANGED <<modified, audio_list, batch>>
    /\ UNCHANGED <<plist_path, progress_bar, convert_queue, threads, stack,
                   disk, jobs, tmpfs, side>>

\* ------------------------------------------------------------ specification
DropLists == UNION {[1..n -> DropFiles] : n \in 1..MaxBatch}

\* What the save-as picker can return where it is reached (NoPath: cancelled),
\* and how the write can end where one is attempted.
Picks(reached) == IF reached THEN PlistFiles \cup {NoPath} ELSE {NoPath}
Outcomes(attempted) == IF attempted THEN SaveOutcomes ELSE {"ok"}

Step(cap) ==
    \/ \E files \in DropLists : FilesDropped(files, cap)
    \/ \E ok \in BOOLEAN, text \in Texts : NameAnswered(ok, text)
    \/ \E yes \in BOOLEAN : OverwriteAnswered(yes)
    \/ \E t \in threads, run \in EncodeRuns : ThreadDone(t, run)
    \/ \E f \in PlistFiles : OpenPlist(f)
    \/ \E old \in audio_list, ok \in BOOLEAN, new_name \in RenameTexts :
          RenameSelected(old, ok, new_name)
    \/ \E names \in SUBSET audio_list, yes \in BOOLEAN :
          DeleteSelected(names, yes)
    \/ \E choice \in Picks(plist_path = NoPath) :
          \E outcome \in Outcomes(plist_path # NoPath \/ choice # NoPath) :
             SavePlist(choice, outcome)
    \/ \E choice \in Picks(TRUE) :
          \E outcome \in Outcomes(choice # NoPath) :
             SavePlistAs(choice, outcome)
    \/ \E answer \in Replies :
          \E choice \in Picks(modified /\ answer = "Save" /\ plist_path = NoPath) :
             \E outcome \in Outcomes(/\ modified
                                      /\ answer = "Save"
                                      /\ (plist_path # NoPath \/ choice # NoPath)) :
                CloseEvent(answer, choice, outcome)

Next == Step(MaxJobs)

Spec == Init /\ [][Next]_vars

\* The queue with one more submitted file, a batch of two followed by a
\* further submission: files are dropped, the dialogs are answered, encodes
\* end, and a plist is opened.
NextDeep ==
    \/ \E files \in DropLists : FilesDropped(files, MaxJobs + 1)
    \/ \E ok \in BOOLEAN, text \in Texts : NameAnswered(ok, text)
    \/ \E yes \in BOOLEAN : OverwriteAnswered(yes)
    \/ \E t \in threads, run \in EncodeRuns : ThreadDone(t, run)
    \/ \E f \in PlistFiles : OpenPlist(f)

SpecDeep == Init /\ [][NextDeep]_vars

\* --------------------------------------------------- the store on its own
MaxPuts == 2      \* direct calls of on_convert_finished over one run

NameAmp == <<"&">>
StoreNames == {NameX, NameY, NameAmp}
StorePayloads ==
    {<<>>, PayloadOther, <<1, 2>>, PayloadSilk, <<250, 251, 252, 253>>}

\* on_convert_finished(name, silk_data) called while the queue is at rest;
\* the counter of the progress bar, -1 after construction, counts the calls.
PutEntry(name, silk_data) ==
    /\ Idle
    /\ progress_bar.value + 1 < MaxPuts
    /\ ConvertFinished(name, silk_data, jobs)
    /\ UNCHANGED <<plist_path, threads, disk, closed, batch, reply, tmpfs,
                   side>>

\* get(name) as play_audio and _export_single read an entry: the decoded
\* bytes of its text.
Get(d, name) == B64Decode(d[name])

\* The operations on the in-memory store, with payloads of every length.
NextStore ==
    \/ \E name \in StoreNames, silk_data \in StorePayloads :
          PutEntry(name, silk_data)
    \/ \E old \in audio_list, ok \in BOOLEAN,
          new_name \in StoreNames \cup {<<>>} :
          RenameSelected(old, ok, new_name)
    \/ \E names \in SUBSET audio_list, yes \in BOOLEAN :
          DeleteSelected(names, yes)
    \/ \E f \in PlistFiles : OpenPlist(f)

SpecStore == Init /\ [][NextStore]_vars

\* The operations of the store and its file, the rename requests remembered.
NextSaved ==
    \/ \E name \in StoreNames, silk_data \in Payloads :
          PutEntry(name, silk_data)
    \/ \E old \in audio_list, ok \in BOOLEAN,
          new_name \in StoreNames \cup {<<>>} :
          RenameAsked(old, ok, new_name)
    \/ \E names \in SUBSET audio_list, yes \in BOOLEAN :
          DeleteSelected(names, yes)
    \/ \E f \in PlistFiles : OpenPlist(f)
    \/ \E choice \in Picks(plist_path = NoPath) :
          \E outcome \in Outcomes(plist_path # NoPath \/ choice # NoPath) :
             SavePlist(choice, outcome)
    \/ \E choice \in Picks(TRUE) :
          \E outcome \in Outcomes(choice # NoPath) :
             SavePlistAs(choice, outcome)

SpecSaved == Init /\ [][NextSaved]_vars

\* ------------------------------------------------------ playback and export
MaxPlays == 2     \* temporary files of playback over one run
MaxTemps == 3     \* files in the temporary directory before a step that adds

\* b'\x02#!SILK_V3'
Magic == <<2, 35, 33, 83, 73, 76, 75, 95, 86, 51>>

\* A recording in the SILK v3 format of the messenger.
PayloadVoice == Magic \o <<7>>

\* audio_bytes.startswith(b'\x02#!SILK_V3') in play_audio
PlaysAsSilk(audio_bytes) == StartsWith(audio_bytes, Magic)

\* audio_bytes.startswith(b'\x02#!SILK_V3') in _export_single
ExportsAsSilk(audio_bytes) == StartsWith(audio_bytes, Magic)

\* audio_data.startswith(b'\x02#!SILK_V3') in convert_plist_to_audio
ConvertsAsSilk(audio_bytes) == StartsWith(audio_bytes, Magic)

\* How a silk_to_wav call goes: pilk.decode raises, or the wave step raises.
DecodeFaults == {"decode", "wave"}
PlayRuns == DecodeFaults \cup {"ok"}
\* In _export_single the export of the decoded wav can raise as well.
ExportRuns == DecodeFaults \cup {"export", "ok"}

\* silk_to_wav(silk_data) on the temporary directory fs: the path it returns
\* (None as NoTemp) and the directory it leaves.
SilkToWav(fs, run) ==
    LET silk_path == NamedTemporaryFile(fs, ".silk")
        pcm_path == Sibling(silk_path, ".pcm")
        wav_path == Sibling(silk_path, ".wav")
    IN  CASE run = "decode" -> [ret |-> NoTemp, fs |-> fs \cup {silk_path}]
          [] run = "wave" ->
                [ret |-> NoTemp, fs |-> fs \cup {silk_path, pcm_path}]
          [] OTHER -> [ret |-> wav_path, fs |-> fs \cup {wav_path}]

\* play_audio(name) for the current item of the list.
PlayAudio(name, run) ==
    /\ Idle
    /\ Len(temp_files) < MaxPlays
    /\ Cardinality(tmpfs) < MaxTemps
    /\ IF name \notin DOMAIN audio_data
       THEN UNCHANGED <<tmpfs, playback>>
       ELSE LET audio_bytes == Get(audio_data, name)
                call == SilkToWav(tmpfs, run)
                temp_path == NamedTemporaryFile(tmpfs, ".audio")
            IN  IF PlaysAsSilk(audio_bytes)
                THEN IF call.ret # NoTemp
                     THEN /\ tmpfs' = call.fs
                          /\ temp_files' = Append(temp_files, call.ret)
                          /\ player' = [source |-> call.ret, playing |-> TRUE]
                          /\ current_playing' = name
                     ELSE /\ tmpfs' = call.fs
                          /\ player' = [player EXCEPT !.playing = FALSE]
                          /\ current_playing' = <<>>
                          /\ UNCHANGED temp_files
                ELSE /\ tmpfs' = tmpfs \cup {temp_path}
                     /\ temp_files' = Append(temp_files, temp_path)
                     /\ player' = [source |-> temp_path, playing |-> TRUE]
                     /\ current_playing' = name
    /\ UNCHANGED <<audio_data, plist_path, modified, audio_list, progress_bar,
                   convert_queue, threads, stack, disk, closed, jobs, batch,
                   reply, outputs, probe>>

\* stop_playback()
StopPlayback ==
    /\ Idle
    /\ player' = [player EXCEPT !.playing = FALSE]
    /\ current_playing' = <<>>
    /\ UNCHANGED <<audio_data, plist_path, modified, audio_list, progress_bar,
                   convert_queue, threads, stack, disk, closed, jobs, batch,
                   reply, tmpfs, temp_files, outputs, probe>>

\* on_media_status_changed(EndOfMedia): the player reached the end.
MediaEnd ==
    /\ ~closed
    /\ player.playing
    /\ player' = [player EXCEPT !.playing = FALSE]
    /\ current_playing' = <<>>
    /\ UNCHANGED <<audio_data, plist_path, modified, audio_list, progress_bar,
                   convert_queue, threads, stack, disk, closed, jobs, batch,
                   reply, tmpfs, temp_files, outputs, probe>>

\* The files a single export can be pointed at.
OutFiles == {File("out", ".mp3"), File("out", ".silk")}

\* f"{output_dir}/{safe_name}.mp3": a file of the picked directory
InDir(name, suffix) == [dir |-> "out", name |-> name, suffix |-> suffix]

\* re.sub(r'[<>:"/\\|?*]', '', name)[:50]
Illegal == {"<", ">", ":", "\"", "/", "\\", "|", "?", "*"}
Legal(c) == c \notin Illegal
SafeName(name) ==
    LET kept == SelectSeq(name, Legal)
    IN  SubSeq(kept, 1, IF Len(kept) < 50 THEN Len(kept) ELSE 50)

\* A file written by an export: raw bytes, or audio converted from them.
WriteOut(outs, file_path, format, audio_bytes) ==
    {o \in outs : o.path # file_path}
       \cup {[path |-> file_path, format |-> format, from |-> audio_bytes]}

\* _export_single(name, file_path): what it returns, the temporary
\* directory and the exported files it leaves.
ExportSingle(fs, outs, name, file_path, run) ==
    IF name \notin DOMAIN audio_data
    THEN [ret |-> FALSE, fs |-> fs, outs |-> outs]
    ELSE LET audio_bytes == Get(audio_data, name)
             call == SilkToWav(fs, run)
             raw == [ret |-> TRUE, fs |-> fs,
                     outs |-> WriteOut(outs, file_path, "raw", audio_bytes)]
         IN  IF file_path.suffix = ".silk" THEN raw
             ELSE IF ExportsAsSilk(audio_bytes)
             THEN IF call.ret = NoTemp
                  THEN [ret |-> TRUE, fs |-> call.fs, outs |-> outs]
                  ELSE IF run = "export"
                  THEN [ret |-> FALSE, fs |-> call.fs, outs |-> outs]
                  ELSE [ret |-> TRUE, fs |-> call.fs \ {call.ret},
                        outs |-> WriteOut(outs, file_path, file_path.suffix,
                                          audio_bytes)]
             ELSE raw

\* The loop of export_selected over the selected names ns.
RECURSIVE ExportEach(_, _, _, _)
ExportEach(fs, outs, ns, runs) ==
    IF ns = <<>> THEN [fs |-> fs, outs |-> outs, success |-> 0]
    ELSE LET one == ExportSingle(fs, outs, Head(ns),
                                 InDir(SafeName(Head(ns)), ".mp3"),
                                 runs[Head(ns)])
             rest == ExportEach(one.fs, one.outs, Tail(ns), runs)
         IN  [rest EXCEPT !.success = @ + (IF one.ret THEN 1 ELSE 0)]

\* export_selected(): one selected name goes to the picked file, several
\* go to the picked directory as <name>.mp3.
ExportSelected(names, pick, runs) ==
    /\ Idle
    /\ names # {}
    /\ names \subseteq audio_list
    /\ Cardinality(tmpfs) < MaxTemps
    /\ IF pick = NoPath
       THEN UNCHANGED <<tmpfs, outputs, progress_bar>>
       ELSE IF Cardinality(names) = 1
       THEN LET name == CHOOSE n \in names : TRUE
                one == ExportSingle(tmpfs, outputs, name, pick, runs[name])
            IN  /\ tmpfs' = one.fs
                /\ outputs' = one.outs
                /\ UNCHANGED progress_bar
       ELSE LET all == ExportEach(tmpfs, outputs, SortedKeys(names), runs)
            IN  /\ tmpfs' = all.fs
                /\ outputs' = all.outs
                /\ progress_bar' = [visible |-> FALSE,
                                    maximum |-> Cardinality(names),
                                    value |-> Cardinality(names)]
    /\ UNCHANGED <<audio_data, plist_path, modified, audio_list,
                   convert_queue, threads, stack, disk, closed, jobs, batch,
                   reply, playback, probe>>

\* The store is filled by loads and puts; entries are played, stopped and
\* exported, and the window is closed.
NextMedia ==
    \/ \E name \in {NameX, NameY} : PutEntry(name, PayloadVoice)
    \/ \E f \in PlistFiles : OpenPlist(f)
    \/ \E name \in audio_list, run \in PlayRuns : PlayAudio(name, run)
    \/ StopPlayback
    \/ MediaEnd
    \/ \E names \in SUBSET audio_list, pick \in OutFiles \cup {NoPath} :
          \E runs \in [names -> ExportRuns] :
             ExportSelected(names, pick, runs)
    \/ \E answer \in Replies :
          \E choice \in Picks(modified /\ answer = "Save" /\ plist_path = NoPath) :
             \E outcome \in Outcomes(/\ modified
                                      /\ answer = "Save"
                                      /\ (plist_path # NoPath \/ choice # NoPath)) :
                CloseEvent(answer, choice, outcome)

SpecMedia == Init /\ [][NextMedia]_vars

\* ---------------------------------------------------------- the format check
\* Byte buffers an entry can decode to: the prefixes of a recording, the
\* header with one byte off by one, with and without data behind it, the
\* header behind a leading byte, and buffers of zeros.
Buffers ==
    {SubSeq(PayloadVoice, 1, n) : n \in 0..Len(PayloadVoice)}
       \cup {[Magic EXCEPT ![i] = (@ + d) % 256] :
                i \in 1..Len(Magic), d \in {1, 255}}
       \cup {[PayloadVoice EXCEPT ![i] = (@ + d) % 256] :
                i \in 1..Len(Magic), d \in {1, 255}}
       \cup {[i \in 1..n |-> 0] : n \in {Len(Magic) - 1, Len(Magic)}}
       \cup {<<0>> \o Magic, PayloadOther}

\* The check of a buffer where playback makes it.
ClassifiedAtPlay(audio_bytes) ==
    /\ probe = NoCall
    /\ probe' = [op |-> "classify", site |-> "play", buffer |-> audio_bytes,
                 silk |-> PlaysAsSilk(audio_bytes)]
    /\ UNCHANGED <<audio_data, plist_path, modified, audio_list, progress_bar,
                   convert_queue, threads, stack, disk, closed, jobs, batch,
                   reply, tmpfs, playback, outputs>>

\* The check of a buffer where the export makes it.
ClassifiedAtExport(audio_bytes) ==
    /\ probe = NoCall
    /\ probe' = [op |-> "classify", site |-> "export", buffer |-> audio_bytes,
                 silk |-> ExportsAsSilk(audio_bytes)]
    /\ UNCHANGED <<audio_data, plist_path, modified, audio_list, progress_bar,
                   convert_queue, threads, stack, disk, closed, jobs, batch,
                   reply, tmpfs, playback, outputs>>

\* The check of a buffer where the batch conversion of a plist makes it.
ClassifiedAtConvert(audio_bytes) ==
    /\ probe = NoCall
    /\ probe' = [op |-> "classify", site |-> "convert", buffer |-> audio_bytes,
                 silk |-> ConvertsAsSilk(audio_bytes)]
    /\ UNCHANGED <<audio_data, plist_path, modified, audio_list, progress_bar,
                   convert_queue, threads, stack, disk, closed, jobs, batch,
                   reply, tmpfs, playback, outputs>>

NextClassify ==
    \/ \E audio_bytes \in Buffers : ClassifiedAtPlay(audio_bytes)
    \/ \E audio_bytes \in Buffers : ClassifiedAtExport(audio_bytes)
    \/ \E audio_bytes \in Buffers : ClassifiedAtConvert(audio_bytes)

SpecClassify == Init /\ [][NextClassify]_vars

\* ------------------------------------------------------------- the loads
Plist2 == File("p2", ".plist")
LoadFiles == {Plist1, Plist2}

\* What a file to open can be: missing, not a plist, a plist with an array
\* as root, a plist of a voice pack.
FileContents ==
    {NoFile, Garbage, ArrayPlist,
     PlistOf(Put(EmptyMap, NameX, B64Encode(PayloadOther))),
     PlistOf(Put(Put(EmptyMap, NameX, B64Encode(PayloadSilk)),
                 NameAmp, B64Encode(PayloadOther)))}

\* The window after construction, next to two files of any content.
InitLoad ==
    /\ audio_data = EmptyMap
    /\ plist_path = NoPath
    /\ modified = FALSE
    /\ audio_list = {}
    /\ progress_bar = [visible |-> FALSE, maximum |-> 100, value |-> -1]
    /\ convert_queue = <<>>
    /\ threads = {}
    /\ stack = <<>>
    /\ disk \in [LoadFiles -> FileContents]
    /\ closed = FALSE
    /\ jobs = <<>>
    /\ batch = [id |-> 0, size |-> 0, emptied |-> FALSE, fresh |-> FALSE,
                untouched |-> TRUE]
    /\ reply = "None"
    /\ tmpfs = {}
    /\ temp_files = <<>>
    /\ player = [source |-> NoTemp, playing |-> FALSE]
    /\ current_playing = <<>>
    /\ outputs = {}
    /\ probe = NoCall

\* Files are opened, entries renamed and deleted.
NextLoad ==
    \/ \E f \in LoadFiles : OpenPlist(f)
    \/ \E old \in audio_list, ok \in BOOLEAN, new_name \in StoreNames :
          RenameSelected(old, ok, new_name)
    \/ \E names \in SUBSET audio_list, yes \in BOOLEAN :
          DeleteSelected(names, yes)

SpecLoad == InitLoad /\ [][NextLoad]_vars

\* The convert queue next to loads and submissions, with the replacements
\* of the container remembered.
NextLate ==
    \/ \E files \in DropLists : FilesDroppedNoted(files, MaxJobs)
    \/ \E ok \in BOOLEAN, text \in Texts : NameAnswered(ok, text)
    \/ \E yes \in BOOLEAN : OverwriteAnswered(yes)
    \/ \E t \in threads, run \in EncodeRuns : ThreadDone(t, run)
    \/ \E f \in PlistFiles : OpenPlistNoted(f)

SpecLate == Init /\ [][NextLate]_vars

\* ------------------------------------------------------- get_ffmpeg_path
\* A path is the sequence of its components.  An installation e says which
\* platform runs the program, whether it is frozen and has sys._MEIPASS,
\* and which files exist.
Systems == {"Windows", "Darwin", "Linux"}

ffmpeg_name(e) == IF e.system = "Windows" THEN "ffmpeg.exe" ELSE "ffmpeg"

\* os.path.join(sys._MEIPASS, ffmpeg_name)
OneFile(e) == <<"_MEIPASS", ffmpeg_name(e)>>

\* The candidates of the onedir mode: next to the executable and in
\* _internal on Windows, in Frameworks of the bundle on macOS, none else.
OneDir(e) ==
    IF e.system = "Windows"
    THEN << <<"base_path", ffmpeg_name(e)>>,
            <<"base_path", "_internal", ffmpeg_name(e)>> >>
    ELSE IF e.system = "Darwin"
    THEN << <<"app_path", "Frameworks", ffmpeg_name(e)>> >>
    ELSE <<>>

system_ffmpeg_paths(e) ==
    IF e.system = "Windows"
    THEN << <<"C:", "ProgramData", "chocolatey", "bin", "ffmpeg.exe">>,
            <<"LOCALAPPDATA", "Programs", "ffmpeg", "bin", "ffmpeg.exe">>,
            <<"ProgramFiles", "ffmpeg", "bin", "ffmpeg.exe">>,
            <<"ProgramFiles(x86)", "ffmpeg", "bin", "ffmpeg.exe">>,
            <<"C:", "ffmpeg", "bin", "ffmpeg.exe">> >>
    ELSE << <<"opt", "homebrew", "bin", "ffmpeg">>,
            <<"usr", "local", "bin", "ffmpeg">>,
            <<"usr", "bin", "ffmpeg">> >>

\* What shutil.which(ffmpeg_name) finds when a directory of PATH holds it.
OnPath(e) == <<"PATH", ffmpeg_name(e)>>

\* The scan that takes the last existing path of a list.
LastExisting(paths, exists) ==
    IF \A i \in 1..Len(paths) : paths[i] \notin exists THEN <<>>
    ELSE paths[CHOOSE i \in 1..Len(paths) :
                  /\ paths[i] \in exists
                  /\ \A k \in (i + 1)..Len(paths) : paths[k] \notin exists]

\* for path in paths: if os.path.exists(path): return path  (<<>>: the loop
\* ends without a return)
RECURSIVE FirstExisting(_, _)
FirstExisting(paths, exists) ==
    IF paths = <<>> THEN <<>>
    ELSE IF Head(paths) \in exists THEN Head(paths)
    ELSE FirstExisting(Tail(paths), exists)

\* get_ffmpeg_path() in the installation e
GetFfmpegPath(e) ==
    LET bundled == IF ~e.frozen THEN <<>>
                   ELSE IF e.meipass
                   THEN FirstExisting(<<OneFile(e)>>, e.exists)
                   ELSE FirstExisting(OneDir(e), e.exists)
        system == FirstExisting(system_ffmpeg_paths(e), e.exists)
        which_ffmpeg == FirstExisting(<<OnPath(e)>>, e.exists)
    IN  IF bundled # <<>> THEN bundled
        ELSE IF system # <<>> THEN system
        ELSE IF which_ffmpeg # <<>> THEN which_ffmpeg
        ELSE <<ffmpeg_name(e)>>

\* The files whose existence get_ffmpeg_path can ask for on a platform.
Places(sys) ==
    LET e == [system |-> sys]
    IN  {OneFile(e), OnPath(e)}
           \cup {OneDir(e)[i] : i \in 1..Len(OneDir(e))}
           \cup {system_ffmpeg_paths(e)[i] :
                    i \in 1..Len(system_ffmpeg_paths(e))}

Installations ==
    UNION {[system : {sys}, frozen : BOOLEAN, meipass : BOOLEAN,
            exists : SUBSET Places(sys)] : sys \in Systems}

\* One call of get_ffmpeg_path, remembered with its installation.
FfmpegAsked(e) ==
    /\ probe = NoCall
    /\ probe' = [op |-> "ffmpeg", env |-> e, ret |-> GetFfmpegPath(e)]
    /\ UNCHANGED <<audio_data, plist_path, modified, audio_list, progress_bar,
                   convert_queue, threads, stack, disk, closed, jobs, batch,
                   reply, tmpfs, playback, outputs>>

NextTool == \E e \in Installations : FfmpegAsked(e)

SpecTool == Init /\ [][NextTool]_vars

\* ------------------------------------------------ convert_plist_to_audio
MaxEntries == 3   \* <key>/<string> pairs of the plist given to the script

\* sanitize_filename(name): illegal characters removed, cut to 50
\* characters, stripped, "unnamed" when nothing is left.
sanitize_filename(name) ==
    LET kept == SelectSeq(name, Legal)
        cut == SubSeq(kept, 1, IF Len(kept) > 50 THEN 50 ELSE Len(kept))
    IN  IF Strip(cut) = <<>> THEN <<"u", "n", "n", "a", "m", "e", "d">>
        ELSE Strip(cut)

\* base64.b64decode(s) raises binascii.Error when the characters of s are
\* not a whole number of groups of four.
B64Raises(s) == Len(s) % 4 # 0

\* How the calls of one entry go: the import of pilk / pydub fails,
\* pilk.decode raises, the export raises, open() of the raw output raises,
\* or nothing fails.
CliRuns == {"import", "decode", "export", "write", "ok"}

\* output_dir / f"{safe_name}.{output_format}"
OutputPath(safe_name, output_format) ==
    [dir |-> "audio_output", name |-> safe_name, suffix |-> output_format]

\* convert_silk_to_audio(silk_data, output_path, output_format): whether it
\* returns (True, duration), and the output files it leaves.  Both
\* temporary files are unlinked in its finally clause.
convert_silk_to_audio(outs, silk_data, output_path, output_format, run) ==
    IF run \in {"import", "decode", "export"}
    THEN [success |-> FALSE, outs |-> outs]
    ELSE [success |-> TRUE,
          outs |-> WriteOut(outs, output_path, output_format, silk_data)]

\* save_silk_raw(silk_data, output_path); open() can raise.
save_silk_raw(outs, silk_data, output_path, run) ==
    IF run = "write"
    THEN [raised |-> TRUE, outs |-> outs]
    ELSE [raised |-> FALSE, outs |-> WriteOut(outs, output_path, "raw", silk_data)]

\* The state of the loop: the two counters, the output directory, and the
\* lines printed for the entries, each with the key it is about.
Line(idx, name, text) == [idx |-> idx, key |-> name, text |-> text]
Counted(acc, line, success, outs) ==
    [success_count |-> acc.success_count + (IF success THEN 1 ELSE 0),
     fail_count |-> acc.fail_count + (IF success THEN 0 ELSE 1),
     outs |-> outs,
     log |-> Append(acc.log, line)]

\* The body of the loop for the entry (name, base64_data) with number idx.
CliEntry(acc, idx, name, base64_data, output_format, run) ==
    LET safe_name == sanitize_filename(name)
        audio_bytes == B64Decode(base64_data)
        output_path == OutputPath(safe_name, output_format)
        saved == save_silk_raw(acc.outs, audio_bytes, output_path, run)
        conv == convert_silk_to_audio(acc.outs, audio_bytes, output_path,
                                      output_format, run)
    IN  IF B64Raises(base64_data)
        THEN Counted(acc, Line(idx, name, "process failed"), FALSE, acc.outs)
        ELSE IF ~ConvertsAsSilk(audio_bytes)
        THEN Counted(acc, Line(idx, name, "skipped"), FALSE, acc.outs)
        ELSE IF output_format = "silk"
        THEN IF saved.raised
             THEN Counted(acc, Line(idx, name, "process failed"), FALSE,
                          saved.outs)
             ELSE Counted(acc, Line(idx, name, "saved"), TRUE, saved.outs)
        ELSE IF conv.success
             THEN Counted(acc, Line(idx, name, "converted"), TRUE, conv.outs)
             ELSE Counted(acc, Line(idx, name, "convert failed"), FALSE,
                          conv.outs)

\* A loop that ends at the first entry that fails.
RECURSIVE CliLoopUntilFailure(_, _, _, _, _)
CliLoopUntilFailure(acc, items, idx, output_format, runs) ==
    IF idx > Len(items) THEN acc
    ELSE LET one == CliEntry(acc, idx, items[idx][1], items[idx][2],
                             output_format, runs[idx])
         IN  IF one.fail_count > acc.fail_count THEN one
             ELSE CliLoopUntilFailure(one, items, idx + 1, output_format, runs)

\* for idx, (name, base64_data) in enumerate(plist_data.items(), 1)
RECURSIVE CliLoop(_, _, _, _, _)
CliLoop(acc, items, idx, output_format, runs) ==
    IF idx > Len(items) THEN acc
    ELSE CliLoop(CliEntry(acc, idx, items[idx][1], items[idx][2],
                          output_format, runs[idx]),
                 items, idx + 1, output_format, runs)

\* The keys of a list without the repetitions, in the order they first occur.
RECURSIVE Distinct(_)
Distinct(ks) ==
    IF ks = <<>> THEN <<>>
    ELSE LET front == Distinct(SubSeq(ks, 1, Len(ks) - 1))
             last == ks[Len(ks)]
         IN  IF \E i \in 1..Len(front) : front[i] = last
             THEN front ELSE Append(front, last)

\* plist_data.items() of the dict loaded from the document doc: a dict
\* keeps a key where it was first inserted.
Items(doc) ==
    LET d == Load(doc)
        ks == Distinct([i \in 1..Len(doc) |-> Unescape(doc[i].key)])
    IN  [i \in 1..Len(ks) |-> <<ks[i], d[ks[i]]>>]

NoCounts == [success_count |-> 0, fail_count |-> 0, outs |-> {}, log |-> <<>>]

\* convert_plist_to_audio(plist_path, output_dir, output_format) on a file
\* with the content file: how it ends, and the state of the loop then.
convert_plist_to_audio(file, output_format, runs) ==
    IF file.kind = "none" THEN [end |-> "missing", at |-> NoCounts]
    ELSE IF file.kind = "garbage" THEN [end |-> "raised", at |-> NoCounts]
    ELSE IF file.kind = "array" THEN [end |-> "raised", at |-> NoCounts]
    ELSE [end |-> "done",
          at |-> CliLoop(NoCounts, Items(file.data), 1, output_format, runs)]

\* main(): a format other than mp3, wav and silk is refused.
CliFormats == {"mp3", "wav", "silk", "ogg"}
Main(file, output_format, runs) ==
    IF output_format \notin {"mp3", "wav", "silk"}
    THEN [end |-> "unsupported", at |-> NoCounts]
    ELSE convert_plist_to_audio(file, output_format, runs)

\* The <key>/<string> pairs a plist given to the script is made of: a voice
\* recording, an entry in another format, an entry whose text is not
\* base64, and a recording whose name gives the file name of the first.
CliPairs ==
    {[key |-> Escape(NameX), string |-> B64Encode(PayloadVoice)],
     [key |-> Escape(NameY), string |-> B64Encode(PayloadOther)],
     [key |-> Escape(<<"?">>), string |-> <<16, 16, 16>>],
     [key |-> Escape(<<"x", "?">>), string |-> B64Encode(PayloadVoice)]}

\* The file given to the script: missing, not a plist, a plist with an
\* array as root, or a plist of up to MaxEntries pairs.
CliFiles ==
    {NoFile, Garbage, ArrayPlist}
       \cup {[kind |-> "plist", data |-> doc] :
               doc \in UNION {[1..n -> CliPairs] : n \in 0..MaxEntries}}

\* The number of entries plist_data has for the file.
EntriesOf(file) ==
    IF file.kind = "plist" THEN Len(Items(file.data)) ELSE 0

\* One run of the script, remembered with its arguments.
CliRun(file, output_format, runs) ==
    /\ probe = NoCall
    /\ probe' = [op |-> "cli", file |-> file, format |-> output_format,
                 runs |-> runs, ret |-> Main(file, output_format, runs)]
    /\ UNCHANGED <<audio_data, plist_path, modified, audio_list, progress_bar,
                   convert_queue, threads, stack, disk, closed, jobs, batch,
                   reply, tmpfs, playback, outputs>>

NextCli ==
    \E file \in CliFiles, output_format \in CliFormats :
       \E runs \in [1..EntriesOf(file) -> CliRuns] :
          CliRun(file, output_format, runs)

SpecCli == Init /\ [][NextCli]_vars

\* ================================================================== claims
JobIds == 1..Len(jobs)

Queued == {convert_queue[i].job : i \in 1..Len(convert_queue)}

AtPrompt(j) ==
    jobs[j].status \in {"AwaitingName", "AwaitingOverwriteConfirmation"}

\* This step delivers the result of thread t.
Delivered(t) == t \in threads /\ t \notin threads'

\* C1: in every reachable state at most one encode (a ConvertThread running
\* audio_to_silk) is active, also when a further batch is submitted while an
\* encode of an earlier batch is running.
C1_AtMostOneEncode == Cardinality(threads) <= 1

\* C2: the naming step (name prompt, overwrite prompt) of a job is never
\* open while another job is InProgress.
C2_NamingAfterEncode ==
    \A j \in JobIds :
        AtPrompt(j) => \A k \in JobIds : jobs[k].status # "InProgress"

\* C3: every submitted source file is attempted; no submitted file is
\* silently dropped from the queue: a file still Pending is in the queue.
C3_NoJobDropped ==
    \A j \in JobIds : jobs[j].status = "Pending" => j \in Queued

\* The step replaces the mapping by the content of a plist file.
LoadsOver ==
    /\ audio_data' # audio_data
    /\ \E f \in PlistFiles : Loadable(f) /\ LoadPlist(f)

\* The step is a submission that empties a non-empty mapping.
EmptiedBySubmission ==
    /\ Len(jobs') > Len(jobs)
    /\ audio_data # EmptyMap
    /\ audio_data' = EmptyMap

\* The step is closeEvent accepting the close with the flag still set.
ClosesUnsaved == ~closed /\ closed' /\ modified' /\ reply' # "Abort"

\* C4: a container whose modified flag is set is never discarded (replaced
\* by load_plist, emptied by on_files_dropped, abandoned by an accepted
\* close) unless the caller answered Discard.
C4_NoSilentDiscard ==
    [][(modified /\ (LoadsOver \/ EmptiedBySubmission \/ ClosesUnsaved))
          => reply' = "Discard"]_vars

\* C5: when a job's result is put into the store, an entry of that name
\* exists just before the put only if the overwrite was confirmed for that
\* job.
C5_PutOnCheckedName ==
    [][\A t \in threads :
          (Delivered(t) /\ jobs'[t.job].status = "Succeeded")
             => (t.name \in DOMAIN audio_data => t.ow)]_vars

\* The jobs of the latest submission, and those of them that succeeded.
BatchJobs == {j \in JobIds : jobs[j].batch = batch.id}
Succeeded == {j \in BatchJobs : jobs[j].status = "Succeeded"}

\* Nothing of the queue is left to do.
Quiescent == stack = <<>> /\ threads = {} /\ convert_queue = <<>>

\* The latest submission went to an empty store, the caller confirmed every
\* name, the names are pairwise distinct, and the caller did not rename,
\* delete or load since.
CleanBatch ==
    /\ batch.id > 0
    /\ batch.fresh
    /\ batch.untouched
    /\ \A j \in BatchJobs : jobs[j].status # "Skipped"
    /\ \A j, k \in BatchJobs :
          (j # k /\ jobs[j].name # <<>>) => jobs[j].name # jobs[k].name

\* C6: N files submitted to an empty store, all names confirmed and
\* pairwise distinct: N terminal job states, and after the batch the store
\* holds exactly the names of the Succeeded jobs (so as many entries as
\* successes), each mapped to the payload its encode produced.
C6_BatchResult ==
    (Quiescent /\ CleanBatch) =>
        /\ \A j \in BatchJobs : jobs[j].status \in Terminal
        /\ DOMAIN audio_data = {jobs[j].name : j \in Succeeded}
        /\ \A j \in Succeeded :
              B64Decode(audio_data[jobs[j].name]) = jobs[j].data

\* The step delivers the error signal of thread t.
FailedStep(t) == Delivered(t) /\ jobs'[t.job].status = "Failed"

\* C7: when a job goes InProgress -> Failed the store is left unchanged,
\* the progress counter increments by one and the queue proceeds to the
\* next job (its name prompt opens) or, when exhausted, completes.
C7_FailureGoesOn ==
    [][\A t \in threads :
          FailedStep(t) =>
             /\ audio_data' = audio_data
             /\ progress_bar'.value = progress_bar.value + 1
             /\ IF convert_queue = <<>>
                THEN ~progress_bar'.visible
                ELSE jobs'[Head(convert_queue).job].status = "AwaitingName"]_vars

\* The step answers the name prompt of job j with a cancel or a blank name.
NameCancelled(j) ==
    /\ jobs[j].status = "AwaitingName"
    /\ jobs'[j].status = "Skipped"

\* C8: a cancelled name prompt skips the job with no encode dispatched and
\* the mapping as before, and the batch proceeds; for a batch of one file
\* the batch ends with 0 succeeded of 1 and the store as it was before the
\* submission.
C8_CancelSkips ==
    [][\A j \in JobIds :
          NameCancelled(j) =>
             /\ threads' = threads
             /\ audio_data' = audio_data
             /\ IF convert_queue = <<>>
                THEN ~progress_bar'.visible
                ELSE jobs'[Head(convert_queue).job].status = "AwaitingName"
             /\ (batch.size = 1 /\ jobs[j].batch = batch.id) =>
                   /\ convert_queue' = <<>>
                   /\ Succeeded = {}
                   /\ ~batch.emptied]_vars

\* The step answers the name prompt of job j with a name.
NameConfirmed(j) ==
    /\ jobs[j].status = "AwaitingName"
    /\ jobs'[j].status \notin {"AwaitingName", "Skipped"}

\* The step answers the overwrite question of job j.
OverwriteAnswer(j) ==
    /\ jobs[j].status = "AwaitingOverwriteConfirmation"
    /\ jobs'[j].status # "AwaitingOverwriteConfirmation"

\* C9: a confirmed name that exists in the store is followed by the
\* overwrite question before any encode is dispatched; a decline skips the
\* job, dispatches nothing and leaves every payload as it was; a confirm
\* dispatches the encode, and its success replaces the payload.
C9_OverwriteGate ==
    [][/\ \A j \in JobIds :
             /\ (NameConfirmed(j) /\ jobs'[j].name \in DOMAIN audio_data) =>
                   /\ jobs'[j].status = "AwaitingOverwriteConfirmation"
                   /\ threads' = threads
             /\ (OverwriteAnswer(j) /\ jobs'[j].status = "Skipped") =>
                   /\ threads' = threads
                   /\ audio_data' = audio_data
             /\ (OverwriteAnswer(j) /\ jobs'[j].status # "Skipped") =>
                   /\ jobs'[j].status = "InProgress"
                   /\ \E t \in threads' \ threads :
                         t.job = j /\ t.name = jobs[j].name /\ t.ow
       /\ \A t \in threads :
             (Delivered(t) /\ jobs'[t.job].status = "Succeeded") =>
                /\ t.name \in DOMAIN audio_data'
                /\ B64Decode(audio_data'[t.name]) = jobs'[t.job].data]_vars

\* C9 has happened: the overwrite of an existing name was declined and the
\* entry is still there, and a later job of the same name has succeeded, so
\* that the entry of the loaded plist now holds the payload of its encode.
C9_Witness ==
    \E j, k \in JobIds :
        /\ j < k
        /\ jobs[j].status = "Skipped"
        /\ jobs[k].status = "Succeeded"
        /\ jobs[j].name = jobs[k].name
        /\ jobs[k].name \in DOMAIN audio_data
        /\ plist_path = Plist1
        /\ jobs[k].name \in DOMAIN Persisted(Plist1)
        /\ B64Decode(Persisted(Plist1)[jobs[k].name]) = PayloadOther
        /\ B64Decode(audio_data[jobs[k].name]) = jobs[k].data

\* The step is a save that was attempted and failed.
FailedSave ==
    \E choice \in PlistFiles \cup {NoPath}, outcome \in SaveOutcomes \ {"ok"} :
        \/ SavePlist(choice, outcome) /\ (plist_path # NoPath \/ choice # NoPath)
        \/ SavePlistAs(choice, outcome) /\ choice # NoPath

\* C10: a failed save, also one reached through save_plist_as, leaves the
\* mapping, the associated path and the modified flag as they were.
C10_FailedSaveKeepsState ==
    [][FailedSave =>
          /\ audio_data' = audio_data
          /\ plist_path' = plist_path
          /\ modified' = modified]_vars

\* The file of the associated path holds the in-memory mapping.
InSync ==
    /\ plist_path # NoPath
    /\ Loadable(plist_path)
    /\ Persisted(plist_path) = audio_data

\* C11: every step that changes the mapping leaves the modified flag set,
\* unless it is a load; the flag is cleared only by a save or a load that
\* succeeded; so whenever the flag is clear and a path is associated, the
\* mapping is the one last persisted at / loaded from that path.
C11_FlagTracksStore ==
    /\ [][/\ audio_data' # audio_data => (modified' \/ InSync')
          /\ (modified /\ ~modified') => InSync']_vars
    /\ []((~modified /\ plist_path # NoPath /\ Loadable(plist_path))
             => Persisted(plist_path) = audio_data)

\* The step is a rename request for an entry `old` that is present, with a
\* name `new_name` that no entry has.
RenamesTo(old, new_name) ==
    /\ RenameAsked(old, TRUE, new_name)
    /\ old \in DOMAIN audio_data
    /\ new_name \notin DOMAIN audio_data

\* What C12 promises of a rename from old to new_name.
RenamedAsPromised(old, new_name) ==
    /\ new_name \in DOMAIN audio_data'
    /\ audio_data'[new_name] = audio_data[old]
    /\ old \notin DOMAIN audio_data'
    /\ \A n \in DOMAIN audio_data \ {old} :
          n \in DOMAIN audio_data' /\ audio_data'[n] = audio_data[n]
    /\ Cardinality(DOMAIN audio_data') = Cardinality(DOMAIN audio_data)
    /\ modified'

\* C12 as stated: rename(old, new) with old present and new absent, for
\* every new, the empty text included: afterwards new has the payload old
\* had, old is gone, the other entries and the number of entries are as
\* before, and the flag is set.
C12_RenameAnyName ==
    [][\A old \in StoreNames, new_name \in StoreNames \cup {<<>>} :
          RenamesTo(old, new_name) => RenamedAsPromised(old, new_name)]_vars

\* C12, amended: the same for every new name that is not the empty text
\* (rename_selected takes an empty text as no rename at all).
C12_RenameMoves ==
    [][\A old \in StoreNames, new_name \in StoreNames :
          RenamesTo(old, new_name) => RenamedAsPromised(old, new_name)]_vars

\* C12 has happened: a confirmed rename to a name that was absent, in a
\* store of two entries; the entry is under the new name only.
C12_Witness ==
    /\ probe.op = "rename"
    /\ probe.ok
    /\ probe.new # <<>>
    /\ probe.new \in DOMAIN audio_data
    /\ probe.old \notin DOMAIN audio_data
    /\ Cardinality(DOMAIN audio_data) = 2
    /\ modified

SavedOk ==
    \E choice \in PlistFiles \cup {NoPath} :
        \/ SavePlist(choice, "ok") /\ (plist_path # NoPath \/ choice # NoPath)
        \/ SavePlistAs(choice, "ok") /\ choice # NoPath

\* C14: after a successful save the file of the path holds exactly the
\* in-memory mapping and the flag is clear, and a load of that file gives
\* back the same keys with the same payload bytes; every load takes the
\* mapping of the file as it is.
C14_SaveLoadRoundTrip ==
    [][/\ SavedOk =>
             /\ audio_data' = audio_data
             /\ ~modified'
             /\ \E f \in PlistFiles :
                   /\ plist_path' = f
                   /\ disk'[f] = PlistOf(audio_data)
                   /\ Loadable(f)'
                   /\ DOMAIN Persisted(f)' = DOMAIN audio_data
                   /\ \A n \in DOMAIN audio_data :
                         B64Decode(Persisted(f)'[n]) = B64Decode(audio_data[n])
       /\ \A f \in PlistFiles :
             (OpenPlist(f) /\ Loadable(f)) =>
                /\ audio_data' = Load(Dump(Persisted(f)))
                /\ plist_path' = f
                /\ ~modified']_vars

\* C14 has happened: a store of two entries, one under a name that the file
\* holds escaped, was saved, and what a load reads back is the store.
C14_Witness ==
    /\ ~modified
    /\ plist_path = Plist1
    /\ Loadable(Plist1)
    /\ Cardinality(DOMAIN audio_data) = 2
    /\ NameAmp \in DOMAIN audio_data
    /\ B64Decode(audio_data[NameAmp]) = PayloadSilk
    /\ \E i \in 1..Len(disk[Plist1].data) :
          disk[Plist1].data[i].key = Escape(NameAmp)
    /\ Persisted(Plist1) = audio_data

\* C15: a put of any payload, the empty one included, leaves an entry whose
\* get returns that payload byte for byte, and changes no other entry; a put
\* on a name that exists replaces that entry and adds none.
C15_PutThenGet ==
    [][\A name \in StoreNames, silk_data \in StorePayloads :
          PutEntry(name, silk_data) =>
             /\ DOMAIN audio_data' = DOMAIN audio_data \cup {name}
             /\ Get(audio_data', name) = silk_data
             /\ (silk_data = <<>>) => (audio_data'[name] = <<>>)
             /\ \A n \in DOMAIN audio_data \ {name} :
                   audio_data'[n] = audio_data[n]]_vars

\* C15 has happened: two puts were made, the entry read from the file was
\* overwritten with the empty payload and a payload of four bytes stands
\* next to it.
C15_Witness ==
    /\ progress_bar.value + 1 = MaxPuts
    /\ plist_path = Plist1
    /\ DOMAIN audio_data = {NameX, NameAmp}
    /\ Get(Persisted(Plist1), NameX) # <<>>
    /\ audio_data[NameX] = <<>>
    /\ Get(audio_data, NameX) = <<>>
    /\ Get(audio_data, NameAmp) = <<250, 251, 252, 253>>

\* C16: a confirmed delete of the selected names takes exactly those names
\* out of the store in its one step, leaves every other entry as it was and
\* sets the flag; a declined delete leaves the store and the flag alone.
C16_DeleteAsUnit ==
    [][\A names \in SUBSET audio_list :
          /\ DeleteSelected(names, TRUE) =>
                /\ DOMAIN audio_data' = DOMAIN audio_data \ names
                /\ \A n \in DOMAIN audio_data \ names :
                      audio_data'[n] = audio_data[n]
                /\ modified'
          /\ DeleteSelected(names, FALSE) =>
                /\ audio_data' = audio_data
                /\ modified' = modified]_vars

\* C16 has happened: the entry loaded from the file and the entry the
\* convert queue added are both gone from the store, none is left, and the
\* flag is set.
C16_Witness ==
    /\ plist_path = Plist1
    /\ Cardinality(DOMAIN Persisted(Plist1)) = 1
    /\ \E j \in 1..Len(jobs) :
          /\ jobs[j].status = "Succeeded"
          /\ jobs[j].name \notin DOMAIN Persisted(Plist1)
          /\ jobs[j].name \notin DOMAIN audio_data
    /\ threads = {}
    /\ audio_data = EmptyMap
    /\ audio_list = {}
    /\ modified
    /\ ~closed

\* C17: every call of audio_to_silk, however it ends, leaves the temporary
\* directory as it found it: the intermediate files it created are removed.
C17_EncodeLeavesNoFiles ==
    [][\A t \in threads, run \in EncodeRuns :
          ThreadDone(t, run) => tmpfs' = tmpfs]_vars

\* The play step of the file in the player ends: stopped, or played out.
PlayEnds == player.playing /\ (StopPlayback \/ MediaEnd)

\* The window takes the close.
CloseAccepted == ~closed /\ closed' /\ reply' # "Abort"

\* C18: the temporary file of a playback is gone when its play step ends,
\* an export leaves the temporary directory as it found it (no wav stays
\* behind, also when the export fails), and an accepted close leaves no
\* temporary file at all.
C18_TempFilesRemoved ==
    /\ [][PlayEnds => player.source \notin tmpfs']_vars
    /\ [][\A names \in SUBSET audio_list, pick \in OutFiles \cup {NoPath} :
            \A runs \in [names -> ExportRuns] :
               ExportSelected(names, pick, runs) => tmpfs' = tmpfs]_vars
    /\ [][CloseAccepted => tmpfs' = {}]_vars

\* C19: a buffer is taken as Silk exactly when it has at least 10 bytes and
\* its first 10 bytes are 0x02 and the characters #!SILK_V3; a shorter
\* buffer is Opaque; playback, export and batch conversion take every
\* buffer the same way.
C19_FormatCheck ==
    probe.op = "classify" =>
       LET b == probe.buffer
       IN  /\ probe.silk <=>
                 /\ Len(b) >= 10
                 /\ SubSeq(b, 1, 10) = <<2, 35, 33, 83, 73, 76, 75, 95, 86, 51>>
           /\ Len(b) < 10 => ~probe.silk
           /\ PlaysAsSilk(b) = probe.silk
           /\ ExportsAsSilk(b) = probe.silk
           /\ ConvertsAsSilk(b) = probe.silk

\* C19 has happened: the batch conversion took a recording with data behind
\* its header as Silk.
C19_Witness ==
    /\ probe.op = "classify"
    /\ probe.site = "convert"
    /\ Len(probe.buffer) > 10
    /\ probe.silk

\* The step ends job j and finds the queue exhausted.
Exhausts(j) ==
    /\ convert_queue = <<>>
    /\ jobs[j].status \notin Terminal
    /\ jobs'[j].status \in Terminal

\* The jobs of the batch b that ended as s, after the step.
EndedAs(b, s) ==
    {k \in 1..Len(jobs') : jobs'[k].batch = b /\ jobs'[k].status = s}

\* C20: when a step finds the queue exhausted, every job of the batch has
\* ended, and what is shown carries the numbers of its jobs that ended
\* Succeeded, Failed and Skipped, which add up to the size of the batch.
C20_BatchCompleteCounts ==
    [][\A j \in JobIds :
          Exhausts(j) =>
             LET b == jobs[j].batch
                 of == {k \in 1..Len(jobs') : jobs'[k].batch = b}
                 shown == ConvertNext(convert_queue, progress_bar, stack,
                                      jobs').shown
             IN  /\ \A k \in of : jobs'[k].status \in Terminal
                 /\ {"success", "failure", "skipped"} \subseteq DOMAIN shown
                 /\ shown.success = Cardinality(EndedAs(b, "Succeeded"))
                 /\ shown.failure = Cardinality(EndedAs(b, "Failed"))
                 /\ shown.skipped = Cardinality(EndedAs(b, "Skipped"))
                 /\ shown.success + shown.failure + shown.skipped
                       = Cardinality(of)]_vars

\* The candidates of an installation in the order of the resolution: the
\* bundled ones of its mode, the system install locations, the PATH lookup.
Candidates(e) ==
    (IF ~e.frozen THEN <<>>
     ELSE IF e.meipass THEN <<OneFile(e)>> ELSE OneDir(e))
       \o system_ffmpeg_paths(e) \o <<OnPath(e)>>

\* C21: get_ffmpeg_path always returns something: the first candidate that
\* exists, in the order bundled, system, PATH lookup, and the bare name of
\* the executable when none exists; a bundled candidate that exists wins
\* over every system install.
C21_ToolResolution ==
    probe.op = "ffmpeg" =>
       LET e == probe.env
           cands == Candidates(e)
           hits == {i \in 1..Len(cands) : cands[i] \in e.exists}
       IN  /\ probe.ret # <<>>
           /\ probe.ret = GetFfmpegPath(e)
           /\ hits = {} => probe.ret = <<ffmpeg_name(e)>>
           /\ hits # {} =>
                 \E i \in hits :
                    /\ probe.ret = cands[i]
                    /\ \A k \in hits : i <= k
           /\ \A i \in hits :
                 i <= Len(cands) - Len(system_ffmpeg_paths(e)) - 1
                    => probe.ret \notin
                          {system_ffmpeg_paths(e)[k] :
                             k \in 1..Len(system_ffmpeg_paths(e))}

\* C21 has happened: a frozen onedir program on Windows found its bundled
\* ffmpeg in _internal though a system install and a PATH entry exist.
C21_Witness ==
    /\ probe.op = "ffmpeg"
    /\ probe.env.system = "Windows"
    /\ probe.env.frozen
    /\ ~probe.env.meipass
    /\ <<"base_path", "ffmpeg.exe">> \notin probe.env.exists
    /\ <<"C:", "ffmpeg", "bin", "ffmpeg.exe">> \in probe.env.exists
    /\ <<"PATH", "ffmpeg.exe">> \in probe.env.exists
    /\ probe.ret = <<"base_path", "_internal", "ffmpeg.exe">>

\* The places of job j in the queue.
PlacesInQueue(j) == {i \in 1..Len(convert_queue) : convert_queue[i].job = j}

\* C22: a job that has ended stays as it ended; a job whose encode runs
\* only ends; an encode is started for a job at a prompt only, and one
\* thread at most runs for a job; a file is popped once: while its job is
\* Pending it is in the queue, at one place, and after its pop it is never
\* in the queue or Pending again.
C22_NoRetry ==
    [][/\ \A j \in JobIds :
             /\ jobs[j].status \in Terminal
                   => jobs'[j].status = jobs[j].status
             /\ jobs[j].status = "InProgress"
                   => jobs'[j].status \in Terminal \cup {"InProgress"}
             /\ jobs[j].status # "Pending" => jobs'[j].status # "Pending"
       /\ \A t \in threads' \ threads :
             /\ jobs[t.job].status
                   \in {"AwaitingName", "AwaitingOverwriteConfirmation"}
             /\ \A u \in threads : u.job # t.job
       /\ \A j \in 1..Len(jobs') :
             IF jobs'[j].status = "Pending"
             THEN Cardinality(PlacesInQueue(j)') = 1
             ELSE PlacesInQueue(j)' = {}]_vars

\* The jobs of the current batch that have ended.
Ended == {j \in BatchJobs : jobs[j].status \in Terminal}

\* C23: once a batch was submitted the counter of the progress bar is the
\* number of jobs of the current batch that have ended, it is never above
\* the size of the batch, and when the queue is exhausted (the bar is
\* hidden) it is the size of the batch.
C23_ProgressCounts ==
    batch.id > 0 =>
       /\ progress_bar.value = Cardinality(Ended)
       /\ progress_bar.value <= batch.size
       /\ progress_bar.maximum = batch.size
       /\ ~progress_bar.visible => progress_bar.value = batch.size

\* C24: the result of an encode that was running when the container was
\* replaced by a load or reset by a submission is not put into the
\* container that is current now, and does not set its flag.
C24_LateResultKeptOut ==
    [][\A t \in threads :
          (/\ Delivered(t)
           /\ jobs'[t.job].status = "Succeeded"
           /\ probe.op = "replaced"
           /\ t.job \in probe.jobs)
             => /\ audio_data' = audio_data
                /\ modified' = modified]_vars

\* C25: a load that fails (the file is missing, is not a plist, or is a
\* plist that is not a voice pack) leaves the mapping, the path and the flag
\* as they were; a load that succeeds takes the mapping of the file, sets
\* the path and clears the flag.
C25_FailedLoadKeepsState ==
    [][\A f \in LoadFiles :
          OpenPlist(f) =>
             IF Loadable(f)
             THEN /\ audio_data' = Persisted(f)
                  /\ plist_path' = f
                  /\ ~modified'
             ELSE /\ audio_data' = audio_data
                  /\ plist_path' = plist_path
                  /\ modified' = modified]_vars

\* The entries of names whose exported file is there after the step.
WrittenFor(names, pick) ==
    {n \in names \cap DOMAIN audio_data :
        \E o \in outputs' :
           /\ o.from = Get(audio_data, n)
           /\ o.path = IF Cardinality(names) = 1 THEN pick
                       ELSE InDir(SafeName(n), ".mp3")}

\* How many entries an export of names reports as exported.
ReportedFor(names, pick, runs) ==
    IF Cardinality(names) = 1
    THEN IF ExportSingle(tmpfs, outputs, CHOOSE n \in names : TRUE, pick,
                         runs[CHOOSE n \in names : TRUE]).ret
         THEN 1 ELSE 0
    ELSE ExportEach(tmpfs, outputs, SortedKeys(names), runs).success

\* C26: an export reports as exported only entries whose file was written:
\* _export_single returns True, and export_selected counts an entry, only
\* when the file of that entry is there afterwards; an entry whose decode
\* fails is not among them.
C26_ExportReportsWritten ==
    [][\A names \in SUBSET audio_list, pick \in OutFiles :
         \A runs \in [names -> ExportRuns] :
            ExportSelected(names, pick, runs) =>
               ReportedFor(names, pick, runs)
                  <= Cardinality(WrittenFor(names, pick))]_vars

\* C27: when the encode of a job returns a non-empty payload the job
\* becomes Succeeded and the payload is put under its name; when it returns
\* nothing or the empty payload the job becomes Failed and the store is
\* left alone; no Succeeded job has the empty payload.
C27_SuccessIffPayload ==
    [][/\ \A t \in threads, run \in EncodeRuns :
             ThreadDone(t, run) =>
                LET r == AudioToSilk(tmpfs, run).ret
                IN  IF r.ok /\ r.data # <<>>
                    THEN /\ jobs'[t.job].status = "Succeeded"
                         /\ t.name \in DOMAIN audio_data'
                         /\ Get(audio_data', t.name) = r.data
                    ELSE /\ jobs'[t.job].status = "Failed"
                         /\ audio_data' = audio_data
       /\ \A j \in 1..Len(jobs') :
             jobs'[j].status = "Succeeded" => jobs'[j].data # <<>>]_vars

\* C27 has happened: one job has failed and left no entry, another has
\* succeeded and the store holds its payload.
C27_Witness ==
    \E j, k \in JobIds :
       /\ jobs[j].status = "Succeeded"
       /\ jobs[j].data # <<>>
       /\ jobs[j].name \in DOMAIN audio_data
       /\ Get(audio_data, jobs[j].name) = jobs[j].data
       /\ jobs[k].status = "Failed"
       /\ jobs[k].name \notin DOMAIN audio_data

\* A run of the script on a plist whose root is a dict, in a format main()
\* accepts.
CliLoaded ==
    /\ probe.op = "cli"
    /\ probe.file.kind = "plist"
    /\ probe.format \in {"mp3", "wav", "silk"}

\* The lines that count as a success / as a failure.
SuccessLines == {"saved", "converted"}
FailureLines == {"skipped", "process failed", "convert failed"}

\* C28: convert_plist_to_audio reaches its end with every entry of the
\* loaded dict counted exactly once, as a success or as a failure, so that
\* success_count + fail_count is the number of entries; an entry that is
\* not SILK is counted as failed and nothing is written from it; an entry
\* whose calls do not fail is converted whatever happened to the entries
\* before it.
C28_CliCountsEveryEntry ==
    CliLoaded =>
       LET d == Load(probe.file.data)
           at == probe.ret.at
           lines(k) == {i \in 1..Len(at.log) : at.log[i].key = k}
           ok == {i \in 1..Len(at.log) : at.log[i].text \in SuccessLines}
           ko == {i \in 1..Len(at.log) : at.log[i].text \in FailureLines}
       IN  /\ probe.ret.end = "done"
           /\ at.success_count + at.fail_count = Cardinality(DOMAIN d)
           /\ \A k \in DOMAIN d : Cardinality(lines(k)) = 1
           /\ \A i \in 1..Len(at.log) : at.log[i].key \in DOMAIN d
           /\ at.success_count = Cardinality(ok)
           /\ at.fail_count = Cardinality(ko)
           /\ \A k \in DOMAIN d :
                 ~B64Raises(d[k]) /\ ~StartsWith(B64Decode(d[k]), Magic) =>
                    /\ \A i \in lines(k) : i \in ko
                    /\ \A o \in at.outs : o.from # B64Decode(d[k])
           /\ \A i \in 1..Len(at.log) :
                 /\ ~B64Raises(d[at.log[i].key])
                 /\ StartsWith(B64Decode(d[at.log[i].key]), Magic)
                 /\ probe.runs[i] = "ok"
                 => /\ i \in ok
                    /\ \E o \in at.outs :
                          o.path = OutputPath(sanitize_filename(at.log[i].key),
                                              probe.format)

\* C28 has happened: the first entry was skipped as not SILK, the second
\* raised in the decoder, and the third was still converted.
C28_Witness ==
    /\ CliLoaded
    /\ Len(probe.ret.at.log) = 3
    /\ probe.ret.at.log[1].text = "skipped"
    /\ probe.ret.at.log[2].text = "process failed"
    /\ probe.ret.at.log[3].text = "converted"
    /\ probe.ret.at.success_count = 1
    /\ probe.ret.at.fail_count = 2
    /\ Cardinality(probe.ret.at.outs) = 1

====
